---- MODULE Spec2Model ----
(***************************************************************************)
(* Model of the emitter package: a channel based publish/subscribe engine. *)
(* The Emitter keeps two concurrent maps (listMans: topic -> per-topic map *)
(* of listenerManagers keyed by listener identity, middlewares: pattern -> *)
(* middleware list).  Every listenerManager owns a channel and a worker    *)
(* goroutine; Emit fans an event out with one goroutine per subscription.  *)
(* Every sync.Map operation, channel operation and WaitGroup operation is  *)
(* one atomic step; goroutines interleave between them.                    *)
(***************************************************************************)
EXTENDS Integers, Sequences, FiniteSets, TLC

\* ------------------------------------------------------------------------
\* Bounds of the model
\* ------------------------------------------------------------------------
MaxSubs == 2
MaxEmits == 2
MaxOffs == 1
MaxUses == 1
MaxCap == 1

\* The API is called from one goroutine: its calls run one after another,
\* concurrently with the goroutines the calls start.
Callers == 1

\* ------------------------------------------------------------------------
\* Flags (bit mask, part_000:20-27)
\* ------------------------------------------------------------------------
FlagOnce == 1
FlagVoid == 2
FlagSkip == 4

\* (f | b) == f for a single-bit b
HasFlag(f, b) == (f \div b) % 2 = 1

\* f | b for a single-bit b
OrFlag(f, b) == IF HasFlag(f, b) THEN f ELSE f + b

\* The predefined middlewares Once, Void, Skip: each ors its flag in.
MwFlag(mw) ==
  CASE mw = "Once" -> FlagOnce
    [] mw = "Void" -> FlagVoid
    [] mw = "Skip" -> FlagSkip

RECURSIVE applyMiddlewares(_, _)
\* applyMiddlewares: run the middlewares in list order on the event's flag.
applyMiddlewares(f, fns) ==
  IF fns = <<>> THEN f
  ELSE applyMiddlewares(OrFlag(f, MwFlag(Head(fns))), Tail(fns))

\* ------------------------------------------------------------------------
\* Topics and path.Match
\* ------------------------------------------------------------------------
\* A topic is a sequence of one-character strings.
TopicA == <<"a">>
TopicStar == <<"*">>
TopicBad == <<"[">>
Topics == {TopicA, TopicStar, TopicBad}
Listeners == {"L1", "L2"}

MetaChars == {"*", "?", "[", "\\"}
IsLiteral(t) == \A i \in 1..Len(t) : t[i] \notin MetaChars

\* Position of the "]" closing the class opened at p[1] = "[", 0 if none
\* (a class needs at least one member before the closing bracket).
ClassEnd(p) ==
  LET ends == {j \in 3..Len(p) : p[j] = "]"}
  IN IF ends = {} THEN 0 ELSE CHOOSE j \in ends : \A k \in ends : j <= k

RECURSIVE Malformed(_)
\* path.ErrBadPattern: an unterminated character class.
Malformed(p) ==
  IF p = <<>> THEN FALSE
  ELSE IF Head(p) = "[" THEN
         IF ClassEnd(p) = 0 THEN TRUE
         ELSE Malformed(SubSeq(p, ClassEnd(p) + 1, Len(p)))
  ELSE Malformed(Tail(p))

RECURSIVE GlobOk(_, _)
\* Shell-glob match of name n against a well-formed pattern p.
GlobOk(p, n) ==
  IF p = <<>> THEN n = <<>>
  ELSE IF Head(p) = "*" THEN
         \E i \in 0..Len(n) : GlobOk(Tail(p), SubSeq(n, i + 1, Len(n)))
  ELSE IF n = <<>> THEN FALSE
  ELSE IF Head(p) = "?" THEN GlobOk(Tail(p), Tail(n))
  ELSE IF Head(p) = "[" THEN
         /\ \E j \in 2..(ClassEnd(p) - 1) : p[j] = Head(n)
         /\ GlobOk(SubSeq(p, ClassEnd(p) + 1, Len(p)), Tail(n))
  ELSE Head(p) = Head(n) /\ GlobOk(Tail(p), Tail(n))

\* path.Match(pattern, name): (matched, err).
Match(p, n) ==
  IF Malformed(p) THEN [ok |-> FALSE, err |-> TRUE]
  ELSE [ok |-> GlobOk(p, n), err |-> FALSE]

\* ------------------------------------------------------------------------
\* State
\* ------------------------------------------------------------------------
NoEvent == [emit |-> 0, flag |-> 0]

VARIABLES
  cfg,          \* the run's limits (never changes)
  Cap,          \* Emitter.Cap
  listMans,     \* Emitter.listMans: topic -> id of its per-topic map, 0 = absent
  maps,         \* the per-topic maps: map id -> (listener identity -> lm id, 0 = absent)
  middlewares,  \* Emitter.middlewares: pattern -> middleware list, <<>> = absent
  lms,          \* the listenerManagers ever created, with channel and worker
  nLm,          \* number of listenerManagers created
  ons,          \* On calls between LoadOrStore and Store: lm id -> map id, 0 = none
  emits,        \* the Emit calls
  nEmits,       \* number of Emit calls started
  tasks,        \* the delivery goroutines, one per (emit, lm)
  offs,         \* the Off calls
  nOffs,        \* number of explicit Off calls started
  nUses,        \* number of Use calls
  crashed       \* an unrecovered panic ended the process

\* The ids of the listenerManagers, Emit calls and Off calls of a run.  An
\* Off call is either an explicit call or the deferred Off of a delivery
\* goroutine (emit, listenerManager).
LmIds == 1..cfg.subs
EmitIds == 1..cfg.emits
OffIds == {<<"call", i, 0>> : i \in 1..cfg.offs} \cup
          {<<"task", e, s>> : e \in EmitIds, s \in LmIds}

vars == <<cfg, Cap, listMans, maps, middlewares, lms, nLm, ons, emits, nEmits,
          tasks, offs, nOffs, nUses, crashed>>

NoLm ==
  [topic |-> <<>>, listener |-> "", middlewares |-> <<>>, cap |-> 0,
   ch |-> <<>>, closed |-> FALSE, worker |-> "none", cur |-> NoEvent,
   handled |-> <<>>, faulted |-> FALSE, enq |-> <<>>, atClose |-> 0,
   superseded |-> FALSE]

NoEmit ==
  [pc |-> "none", topic |-> <<>>, flag |-> 0, match |-> {}, cur |-> <<>>,
   m |-> 0, keys |-> {}, wg |-> 0, haveToWait |-> FALSE, closes |-> 0,
   waiter |-> "none", visited |-> {}, regAtStart |-> {}, retBefore |-> {},
   doneBefore |-> {}]

NoTask ==
  [pc |-> "none", flag |-> 0, sent |-> FALSE, canceled |-> FALSE,
   remove |-> FALSE, sawFull |-> FALSE, sawClosed |-> FALSE]

NoOff ==
  [pc |-> "none", topic |-> <<>>, ls |-> {}, match |-> {}, cur |-> <<>>,
   m |-> 0, keys |-> {}, k |-> "", lm |-> 0, shouldRemove |-> FALSE,
   startKeys |-> {}, startReg |-> <<>>, startLm |-> 0]

NoMap == [l \in Listeners |-> 0]

\* cfg: how many calls of each kind the callers make and how many calling
\* goroutines there are.
Config(nsubs, nemits, noffs, nuses, ncallers) ==
  [subs |-> nsubs, emits |-> nemits, offs |-> noffs, uses |-> nuses,
   callers |-> ncallers]

InitWith(c) ==
  /\ cfg = c
  /\ Cap \in 0..MaxCap
  /\ listMans = [t \in Topics |-> 0]
  /\ maps = [m \in LmIds |-> NoMap]
  /\ middlewares = [t \in Topics |-> <<>>]
  /\ lms = [s \in LmIds |-> NoLm]
  /\ nLm = 0
  /\ ons = [s \in LmIds |-> 0]
  /\ emits = [e \in EmitIds |-> NoEmit]
  /\ nEmits = 0
  /\ tasks = [e \in EmitIds, s \in LmIds |-> NoTask]
  /\ offs = [o \in OffIds |-> NoOff]
  /\ nOffs = 0
  /\ nUses = 0
  /\ crashed = FALSE


\* ------------------------------------------------------------------------
\* Registry helpers
\* ------------------------------------------------------------------------
\* Keys currently stored in per-topic map m.
KeysOf(m) == {k \in Listeners : maps[m][k] # 0}

\* The listenerManagers reachable from the registry under topic t.
SubsUnder(t) ==
  IF listMans[t] = 0 THEN {}
  ELSE {maps[listMans[t]][k] : k \in KeysOf(listMans[t])}

\* Is listenerManager s reachable from the registry?
Registered(s) == \E t \in Topics : s \in SubsUnder(t)

\* Mutant of matchedRange: the registered topic is never tried as the
\* pattern.
RECURSIVE matchedRangeOneWay(_, _, _)
matchedRangeOneWay(order, topic, acc) ==
  IF order = <<>> THEN acc
  ELSE LET K == Head(order)
       IN IF Match(topic, K).err THEN acc
          ELSE IF Match(topic, K).ok
          THEN matchedRangeOneWay(Tail(order), topic, Append(acc, K))
          ELSE matchedRangeOneWay(Tail(order), topic, acc)

\* Emitter.matched, call by call of the Range callback, the keys visited in
\* the given order: an error of path.Match(topic, key) ends the Range with
\* what was collected; a key is appended when path.Match(topic, key) or,
\* failing that, path.Match(key, topic) matched (its error is dropped).
RECURSIVE matchedRange(_, _, _)
matchedRange(order, topic, acc) ==
  IF order = <<>> THEN acc
  ELSE LET K == Head(order)
       IN IF Match(topic, K).err THEN acc
          ELSE IF Match(topic, K).ok
          THEN matchedRange(Tail(order), topic, Append(acc, K))
          ELSE IF Match(K, topic).ok
          THEN matchedRange(Tail(order), topic, Append(acc, K))
          ELSE matchedRange(Tail(order), topic, acc)

\* The orders in which a Range can visit the keys of S.
Orders(S) ==
  {f \in [1..Cardinality(S) -> S] :
     \A i, j \in 1..Cardinality(S) : i # j => f[i] # f[j]}

\* Mutant of matched: the registered topic is never tried as the pattern.
matchedOneWay(topic) ==
  LET keys == {K \in Topics : listMans[K] # 0}
  IN IF \E K \in keys : Match(topic, K).err THEN {}
     ELSE {K \in keys : Match(topic, K).ok}

\* Emitter.matched: Range over the registered topics; the first error of
\* path.Match(topic, key) stops the Range and returns what was collected.
\* The error depends on topic alone, so it is raised on the first key
\* visited and nothing has been collected by then.
matched(topic) ==
  LET keys == {K \in Topics : listMans[K] # 0}
  IN IF \E K \in keys : Match(topic, K).err THEN {}
     ELSE {K \in keys : Match(topic, K).ok \/ Match(K, topic).ok}

\* Emitter.getMiddlewares: the middlewares of every pattern that matches
\* topic in either direction (errors ignored).  The lists are concatenated
\* in map order; every middleware ors one flag in, so the flags applied are
\* the same for every order and one order is enough.
RECURSIVE Concat(_, _)
Concat(ps, acc) ==
  IF ps = {} THEN acc
  ELSE LET p == CHOOSE x \in ps : TRUE
       IN Concat(ps \ {p}, acc \o middlewares[p])

getMiddlewares(topic) ==
  Concat({p \in Topics : /\ middlewares[p] # <<>>
                         /\ (Match(p, topic).ok \/ Match(topic, p).ok)}, <<>>)

\* Emitter.Topics
TopicsOf == {t \in Topics : listMans[t] # 0}

\* Emitter.Listeners(topic): the listenerManagers whose listener is returned.
ListenersOf(topic) == UNION {SubsUnder(t) : t \in matched(topic)}

\* The API calls in progress: On between LoadOrStore and Store, Emit before
\* it returns, explicit Off before it returns.  (Use is a single step.)
CallsInProgress ==
  Cardinality({s \in LmIds : ons[s] # 0})
  + Cardinality({e \in EmitIds : emits[e].pc \in {"loop", "range"}})
  + Cardinality({i \in 1..cfg.offs :
                   offs[<<"call", i, 0>>].pc \notin {"none", "done", "panicked"}})

\* A calling goroutine is free to start an API call.
CallerFree == CallsInProgress < cfg.callers

\* ------------------------------------------------------------------------
\* Use
\* ------------------------------------------------------------------------
\* Use(pattern, middlewares...): Store, or Delete for an empty list.
Use(pattern, mws) ==
  /\ ~crashed
  /\ nUses < cfg.uses
  /\ CallerFree
  /\ nUses' = nUses + 1
  /\ middlewares' = [middlewares EXCEPT ![pattern] = mws]
  /\ UNCHANGED <<cfg, Cap, listMans, maps, lms, nLm, ons, emits, nEmits, tasks,
                 offs, nOffs, crashed>>

\* ------------------------------------------------------------------------
\* On / Once
\* ------------------------------------------------------------------------
\* newListenerManager: channel of the emitter's capacity, worker started.
newListenerManager(topic, listener, mws) ==
  [topic |-> topic, listener |-> listener, middlewares |-> mws, cap |-> Cap,
   ch |-> <<>>, closed |-> FALSE, worker |-> "idle", cur |-> NoEvent,
   handled |-> <<>>, faulted |-> FALSE, enq |-> <<>>, atClose |-> 0,
   superseded |-> FALSE]

\* On, first half: newListenerManager and listMans.LoadOrStore(topic, new map).
\* A map stored by this call takes the id of the call's listenerManager.
OnLoadOrStore(topic, listener, mws) ==
  /\ ~crashed
  /\ nLm < cfg.subs
  /\ CallerFree
  /\ LET s == nLm + 1
         stored == listMans[topic] = 0
         m == IF stored THEN s ELSE listMans[topic]
     IN /\ nLm' = s
        /\ lms' = [lms EXCEPT ![s] = newListenerManager(topic, listener, mws)]
        /\ listMans' = IF stored THEN [listMans EXCEPT ![topic] = s] ELSE listMans
        /\ ons' = [ons EXCEPT ![s] = m]
  /\ UNCHANGED <<cfg, Cap, maps, middlewares, emits, nEmits, tasks, offs, nOffs,
                 nUses, crashed>>

\* Once(topic, listener, mws...) is On(topic, listener, append(mws, Once)...).
OnceList(mws) == Append(mws, "Once")

OnCall(topic, listener, mws) == OnLoadOrStore(topic, listener, mws)

OnceCall(topic, listener, mws) == OnLoadOrStore(topic, listener, OnceList(mws))

\* Mutant of OnStore: a listener already in the per-topic map keeps its
\* listenerManager.
OnStoreKeepOld(s) ==
  /\ ~crashed
  /\ ons[s] # 0
  /\ maps' = IF maps[ons[s]][lms[s].listener] # 0 THEN maps
             ELSE [maps EXCEPT ![ons[s]][lms[s].listener] = s]
  /\ ons' = [ons EXCEPT ![s] = 0]
  /\ UNCHANGED <<cfg, Cap, listMans, middlewares, lms, nLm, emits, nEmits, tasks,
                 offs, nOffs, nUses, crashed>>

\* On, second half: Store(listener identity, l) into the per-topic map; the
\* listenerManager the key held is replaced (history: superseded).
OnStore(s) ==
  /\ ~crashed
  /\ ons[s] # 0
  /\ LET old == maps[ons[s]][lms[s].listener]
     IN lms' = IF old = 0 THEN lms
               ELSE [lms EXCEPT ![old].superseded = TRUE]
  /\ maps' = [maps EXCEPT ![ons[s]][lms[s].listener] = s]
  /\ ons' = [ons EXCEPT ![s] = 0]
  /\ UNCHANGED <<cfg, Cap, listMans, middlewares, nLm, emits, nEmits, tasks,
                 offs, nOffs, nUses, crashed>>

\* ------------------------------------------------------------------------
\* Worker of a listenerManager (observe: for e := range lm.ch { Handle(e) })
\* ------------------------------------------------------------------------
\* The worker receives the next buffered event.
WorkerRecv(s) ==
  /\ ~crashed
  /\ lms[s].worker = "idle"
  /\ lms[s].ch # <<>>
  /\ lms' = [lms EXCEPT ![s].worker = "busy", ![s].cur = Head(lms[s].ch),
                        ![s].ch = Tail(lms[s].ch)]
  /\ UNCHANGED <<cfg, Cap, listMans, maps, middlewares, nLm, ons, emits, nEmits,
                 tasks, offs, nOffs, nUses, crashed>>

\* listener.Handle(e) returns.
WorkerHandle(s) ==
  /\ ~crashed
  /\ lms[s].worker = "busy"
  /\ lms' = [lms EXCEPT ![s].worker = "idle", ![s].cur = NoEvent,
                        ![s].handled = Append(lms[s].handled, lms[s].cur)]
  /\ UNCHANGED <<cfg, Cap, listMans, maps, middlewares, nLm, ons, emits, nEmits,
                 tasks, offs, nOffs, nUses, crashed>>

\* Mutant of WorkerExit: the worker exits on close without draining.
WorkerExitEarly(s) ==
  /\ ~crashed
  /\ lms[s].worker = "idle"
  /\ lms[s].closed
  /\ lms' = [lms EXCEPT ![s].worker = "exited"]
  /\ UNCHANGED <<cfg, Cap, listMans, maps, middlewares, nLm, ons, emits, nEmits,
                 tasks, offs, nOffs, nUses, crashed>>

\* range over a closed and drained channel ends: the worker exits.
WorkerExit(s) ==
  /\ ~crashed
  /\ lms[s].worker = "idle"
  /\ lms[s].closed
  /\ lms[s].ch = <<>>
  /\ lms' = [lms EXCEPT ![s].worker = "exited"]
  /\ UNCHANGED <<cfg, Cap, listMans, maps, middlewares, nLm, ons, emits, nEmits,
                 tasks, offs, nOffs, nUses, crashed>>

\* listener.Handle(e) panics.  observe has no recover: the panic unwinds
\* the worker goroutine and ends the process.
WorkerFault(s) ==
  /\ ~crashed
  /\ lms[s].worker = "busy"
  /\ lms' = [lms EXCEPT ![s].worker = "panicked", ![s].faulted = TRUE]
  /\ crashed' = TRUE
  /\ UNCHANGED <<cfg, Cap, listMans, maps, middlewares, nLm, ons, emits, nEmits,
                 tasks, offs, nOffs, nUses>>

\* ------------------------------------------------------------------------
\* Emit
\* ------------------------------------------------------------------------
\* Snapshot of the registry: topic -> the listenerManagers under it.
RegistrySnapshot == [t \in Topics |-> SubsUnder(t)]

\* Emit, start: done := make(chan struct{}, 1); match := matched(topic).
\* The event is created with flag 0 (NewEvent).  History: the subscriptions
\* registered and the earlier Emit calls returned / completed at this point.
EmitStart(topic) ==
  /\ ~crashed
  /\ nEmits < cfg.emits
  /\ CallerFree
  /\ LET e == nEmits + 1
     IN /\ nEmits' = e
        /\ emits' = [emits EXCEPT ![e] =
             [NoEmit EXCEPT !.pc = "loop", !.topic = topic,
                            !.match = matched(topic),
                            !.regAtStart = {s \in LmIds : Registered(s)},
                            !.retBefore = {x \in EmitIds : emits[x].pc = "returned"},
                            !.doneBefore = {x \in EmitIds : emits[x].closes > 0}]]
  /\ UNCHANGED <<cfg, Cap, listMans, maps, middlewares, lms, nLm, ons, tasks, offs,
                 nOffs, nUses, crashed>>

\* Emit, next matching topic t: the pattern-scoped middlewares are applied
\* to the shared event, then the Range over listMans looks the topic up and
\* the Range over its per-topic map begins.
EmitTopic(e, t) ==
  /\ ~crashed
  /\ emits[e].pc = "loop"
  /\ t \in emits[e].match
  /\ LET m == listMans[t]
         ks == IF m = 0 THEN {} ELSE KeysOf(m)
     IN emits' = [emits EXCEPT
          ![e].match = emits[e].match \ {t},
          ![e].flag = applyMiddlewares(emits[e].flag, getMiddlewares(t)),
          ![e].cur = t, ![e].m = m, ![e].keys = ks,
          ![e].pc = IF ks = {} THEN "loop" ELSE "range"]
  /\ UNCHANGED <<cfg, Cap, listMans, maps, middlewares, lms, nLm, ons, nEmits,
                 tasks, offs, nOffs, nUses, crashed>>

\* Mutant of IsVoid: the Void flag is not looked at.
IsVoidNever(f) == FALSE

\* (evn.Flag() | FlagVoid) == evn.Flag()
IsVoid(f) == HasFlag(f, FlagVoid)

\* Emit, next entry k of the per-topic map: clone the event, apply the
\* listener-scoped middlewares, skip on Void, else wg.Add(1) and start the
\* delivery goroutine.  An entry deleted meanwhile is not visited.
\* History: the subscriptions visited, with the flag of their clone.
EmitVisit(e, k) ==
  /\ ~crashed
  /\ emits[e].pc = "range"
  /\ k \in emits[e].keys
  /\ LET s == maps[emits[e].m][k]
         rest == emits[e].keys \ {k}
         pc2 == IF rest = {} THEN "loop" ELSE "range"
         evn == IF s = 0 THEN 0
                ELSE applyMiddlewares(emits[e].flag, lms[s].middlewares)
     IN IF s = 0
        THEN /\ emits' = [emits EXCEPT ![e].keys = rest, ![e].pc = pc2]
             /\ UNCHANGED tasks
        ELSE IF IsVoid(evn)
        THEN /\ emits' = [emits EXCEPT ![e].keys = rest, ![e].pc = pc2,
                                       ![e].visited = @ \cup {<<s, evn>>}]
             /\ UNCHANGED tasks
        ELSE /\ emits' = [emits EXCEPT ![e].keys = rest, ![e].pc = pc2,
                                       ![e].visited = @ \cup {<<s, evn>>},
                                       ![e].wg = emits[e].wg + 1,
                                       ![e].haveToWait = TRUE]
             /\ tasks' = [tasks EXCEPT ![e, s] =
                            [NoTask EXCEPT !.pc = "send", !.flag = evn]]
  /\ UNCHANGED <<cfg, Cap, listMans, maps, middlewares, lms, nLm, ons, nEmits,
                 offs, nOffs, nUses, crashed>>

\* Mutant of CloseAtReturn: Emit closes done itself whatever it started.
CloseAtReturnAlways(e) == TRUE

\* if haveToWait { go func() { wg.Wait(); close(done) }() } else { close(done) }
CloseAtReturn(e) == ~emits[e].haveToWait

\* Emit returns done.
EmitReturn(e) ==
  /\ ~crashed
  /\ emits[e].pc = "loop"
  /\ emits[e].match = {}
  /\ emits' = [emits EXCEPT
       ![e].pc = "returned",
       ![e].waiter = IF emits[e].haveToWait THEN "waiting" ELSE "none",
       ![e].closes = IF CloseAtReturn(e) THEN emits[e].closes + 1
                     ELSE emits[e].closes]
  /\ UNCHANGED <<cfg, Cap, listMans, maps, middlewares, lms, nLm, ons, nEmits,
                 tasks, offs, nOffs, nUses, crashed>>

\* Mutant of WaitReturns: the waiter does not wait for the delivery goroutines.
WaitReturnsAtOnce(e) == TRUE

\* wg.Wait() returns when the counter is zero.
WaitReturns(e) == emits[e].wg = 0

\* The waiter goroutine: wg.Wait(); close(done).
WaiterClose(e) ==
  /\ ~crashed
  /\ emits[e].waiter = "waiting"
  /\ WaitReturns(e)
  /\ emits' = [emits EXCEPT ![e].waiter = "done",
                            ![e].closes = emits[e].closes + 1]
  /\ UNCHANGED <<cfg, Cap, listMans, maps, middlewares, lms, nLm, ons, nEmits,
                 tasks, offs, nOffs, nUses, crashed>>

\* ------------------------------------------------------------------------
\* Delivery goroutine: pushEvent / send
\* ------------------------------------------------------------------------
\* Mutant of HasRoom: a closed channel accepts a send like an open one.
HasRoomClosed(s) ==
  IF lms[s].cap = 0 THEN lms[s].worker = "idle"
  ELSE Len(lms[s].ch) < lms[s].cap

\* The channel accepts a send without blocking: buffer room, or for an
\* unbuffered channel the worker blocked in its receive.
HasRoom(s) ==
  /\ ~lms[s].closed
  /\ IF lms[s].cap = 0 THEN lms[s].worker = "idle"
     ELSE Len(lms[s].ch) < lms[s].cap

\* Mutant of Wait: send waits whatever the flags.
WaitAlways(f) == TRUE

\* send is called with wait = !isSkip
Wait(f) == ~HasFlag(f, FlagSkip)

\* The cases of send's select that can be taken now.  A send on a closed
\* channel panics and the deferred recover turns that into (false, false);
\* the default case exists only when wait is false and is taken only when
\* no other case is ready.
SendOutcomes(e, s) ==
  LET ready == (IF emits[e].closes > 0 THEN {"canceled"} ELSE {})
               \cup (IF lms[s].closed THEN {"panic"} ELSE {})
               \cup (IF HasRoom(s) THEN {"sent"} ELSE {})
  IN IF ready # {} THEN ready
     ELSE IF Wait(tasks[e, s].flag) THEN {} ELSE {"default"}

\* Mutant of Remove: every outcome that is not canceled removes.
RemoveBroad(sent, canceled, isOnce) == ~canceled /\ isOnce

\* pushEvent: remove, from the outcome of send and the Once flag.
Remove(sent, canceled, isOnce) ==
  IF ~sent /\ ~canceled THEN FALSE
  ELSE IF ~canceled THEN isOnce
  ELSE FALSE

\* The delivery goroutine up to wg.Done(): pushEvent(done, lm.ch, event),
\* the deferred Off is registered when remove is set.
TaskSend(e, s) ==
  /\ ~crashed
  /\ tasks[e, s].pc = "send"
  /\ \E out \in SendOutcomes(e, s) :
       LET t == tasks[e, s]
           sent == out = "sent"
           canceled == out = "canceled"
           remove == Remove(sent, canceled, HasFlag(t.flag, FlagOnce))
           ev == [emit |-> e, flag |-> t.flag]
       IN /\ tasks' = [tasks EXCEPT ![e, s] =
                         [t EXCEPT !.pc = IF remove THEN "off" ELSE "done",
                                   !.sent = sent, !.canceled = canceled,
                                   !.remove = remove,
                                   !.sawFull = ~HasRoom(s) /\ ~lms[s].closed,
                                   !.sawClosed = lms[s].closed]]
          /\ lms' = IF ~sent THEN lms
                    ELSE IF lms[s].cap = 0
                    THEN [lms EXCEPT ![s].worker = "busy", ![s].cur = ev,
                                     ![s].enq = Append(lms[s].enq, ev)]
                    ELSE [lms EXCEPT ![s].ch = Append(lms[s].ch, ev),
                                     ![s].enq = Append(lms[s].enq, ev)]
          /\ emits' = [emits EXCEPT ![e].wg = emits[e].wg - 1]
  /\ UNCHANGED <<cfg, Cap, listMans, maps, middlewares, nLm, ons, nEmits, offs,
                 nOffs, nUses, crashed>>

\* ------------------------------------------------------------------------
\* Off
\* ------------------------------------------------------------------------
\* Off, start: match := matched(topic).  History: the registry at the start.
OffBegin(o, topic, ls) ==
  LET mt == matched(topic)
  IN [NoOff EXCEPT !.pc = IF mt = {} THEN "done" ELSE "loop",
                   !.topic = topic, !.ls = ls, !.match = mt,
                   !.startKeys = TopicsOf, !.startReg = RegistrySnapshot,
                   !.startLm = nLm]

\* An explicit Off(topic, listeners...) call starts.
OffCall(topic, ls) ==
  /\ ~crashed
  /\ nOffs < cfg.offs
  /\ CallerFree
  /\ nOffs' = nOffs + 1
  /\ offs' = [offs EXCEPT ![<<"call", nOffs + 1, 0>>] =
                OffBegin(<<"call", nOffs + 1, 0>>, topic, ls)]
  /\ UNCHANGED <<cfg, Cap, listMans, maps, middlewares, lms, nLm, ons, emits,
                 nEmits, tasks, nUses, crashed>>

\* The deferred e.Off(event.Topic(), lm.listener) of a delivery goroutine
\* starts, after wg.Done().
TaskOff(e, s) ==
  /\ ~crashed
  /\ tasks[e, s].pc = "off"
  /\ offs[<<"task", e, s>>].pc = "none"
  /\ offs' = [offs EXCEPT ![<<"task", e, s>>] =
                OffBegin(<<"task", e, s>>, emits[e].topic, {lms[s].listener})]
  /\ UNCHANGED <<cfg, Cap, listMans, maps, middlewares, lms, nLm, ons, emits,
                 nEmits, tasks, nOffs, nUses, crashed>>

\* Mutant of DropKeys: dropAll drops nothing.
DropKeysNamed(m, ls) == ls

\* Mutant of DropKeys: dropMany drops every key of the map.
DropKeysAll(m, ls) == KeysOf(m)

\* The keys Off goes through in per-topic map m: all of them (dropAll) when
\* no listener is given, those of the listeners given (dropMany) otherwise.
DropKeys(m, ls) == IF ls = {} THEN KeysOf(m) ELSE ls

\* Where the loop over match goes after a topic is finished.
OffNext(o, rest) == IF rest = {} THEN "done" ELSE "loop"

\* Off, next matched topic t: the Range over listMans looks the topic up.
\* Without listeners dropAll ranges over the per-topic map, with listeners
\* dropMany goes through the listeners given.
OffTopic(o, t) ==
  /\ ~crashed
  /\ offs[o].pc = "loop"
  /\ t \in offs[o].match
  /\ LET m == listMans[t]
         rest == offs[o].match \ {t}
     IN offs' = [offs EXCEPT
          ![o].match = rest, ![o].cur = t, ![o].m = m,
          ![o].keys = IF m = 0 THEN {} ELSE DropKeys(m, offs[o].ls),
          ![o].pc = IF m = 0 THEN OffNext(o, rest) ELSE "keys"]
  /\ UNCHANGED <<cfg, Cap, listMans, maps, middlewares, lms, nLm, ons, emits,
                 nEmits, tasks, nOffs, nUses, crashed>>

\* drop / dropAll, first step: Load the listenerManager stored under key k
\* (an absent key is skipped).
OffLoad(o, k) ==
  /\ ~crashed
  /\ offs[o].pc = "keys"
  /\ k \in offs[o].keys
  /\ LET s == maps[offs[o].m][k]
     IN offs' = [offs EXCEPT ![o].keys = offs[o].keys \ {k}, ![o].k = k,
                             ![o].lm = s,
                             ![o].pc = IF s = 0 THEN "keys" ELSE "close"]
  /\ UNCHANGED <<cfg, Cap, listMans, maps, middlewares, lms, nLm, ons, emits,
                 nEmits, tasks, nOffs, nUses, crashed>>

\* drop / dropAll, second step: close(listMan.ch).  Closing a closed channel
\* panics; nothing recovers it.
OffClose(o) ==
  /\ ~crashed
  /\ offs[o].pc = "close"
  /\ IF lms[offs[o].lm].closed
     THEN /\ crashed' = TRUE
          /\ offs' = [offs EXCEPT ![o].pc = "panicked"]
          /\ UNCHANGED lms
     ELSE /\ lms' = [lms EXCEPT ![offs[o].lm].closed = TRUE,
                                ![offs[o].lm].atClose = Len(lms[offs[o].lm].ch)]
          /\ offs' = [offs EXCEPT ![o].pc = "delete"]
          /\ UNCHANGED crashed
  /\ UNCHANGED <<cfg, Cap, listMans, maps, middlewares, nLm, ons, emits, nEmits,
                 tasks, nOffs, nUses>>

\* drop / dropAll, third step: Delete(key) from the per-topic map.
OffDelete(o) ==
  /\ ~crashed
  /\ offs[o].pc = "delete"
  /\ maps' = [maps EXCEPT ![offs[o].m][offs[o].k] = 0]
  /\ offs' = [offs EXCEPT ![o].pc = "keys"]
  /\ UNCHANGED <<cfg, Cap, listMans, middlewares, lms, nLm, ons, emits, nEmits,
                 tasks, nOffs, nUses, crashed>>

\* Off, after the drops.  Without listeners: listMans.Delete(topic).  With
\* listeners: the Range that decides shouldRemove.
OffDropped(o) ==
  /\ ~crashed
  /\ offs[o].pc = "keys"
  /\ offs[o].keys = {}
  /\ IF offs[o].ls = {}
     THEN /\ listMans' = [listMans EXCEPT ![offs[o].cur] = 0]
          /\ offs' = [offs EXCEPT
                        ![o].pc = OffNext(o, offs[o].match)]
     ELSE /\ offs' = [offs EXCEPT ![o].pc = "prune",
                        ![o].shouldRemove = KeysOf(offs[o].m) = {}]
          /\ UNCHANGED listMans
  /\ UNCHANGED <<cfg, Cap, maps, middlewares, lms, nLm, ons, emits, nEmits, tasks,
                 nOffs, nUses, crashed>>

\* Off with listeners: if shouldRemove { listMans.Delete(topic) }.
OffPrune(o) ==
  /\ ~crashed
  /\ offs[o].pc = "prune"
  /\ IF offs[o].shouldRemove
     THEN /\ listMans' = [listMans EXCEPT ![offs[o].cur] = 0]
          /\ offs' = [offs EXCEPT
                        ![o].pc = OffNext(o, offs[o].match)]
     ELSE /\ offs' = [offs EXCEPT ![o].pc = OffNext(o, offs[o].match)]
          /\ UNCHANGED listMans
  /\ UNCHANGED <<cfg, Cap, maps, middlewares, lms, nLm, ons, emits, nEmits, tasks,
                 nOffs, nUses, crashed>>

\* ------------------------------------------------------------------------
\* Specifications
\* ------------------------------------------------------------------------
\* The steps of the goroutines behind Emit: the Emit loop, the waiter, the
\* delivery goroutines and the workers.
Deliver ==
  \/ \E e \in EmitIds, t \in Topics : EmitTopic(e, t)
  \/ \E e \in EmitIds, k \in Listeners : EmitVisit(e, k)
  \/ \E e \in EmitIds : EmitReturn(e)
  \/ \E e \in EmitIds : WaiterClose(e)
  \/ \E e \in EmitIds, s \in LmIds : TaskSend(e, s)
  \/ \E s \in LmIds : WorkerRecv(s)
  \/ \E s \in LmIds : WorkerHandle(s)

\* The steps of an Off call, explicit or deferred, after its start.
Remove1 ==
  \/ \E o \in OffIds, t \in Topics : OffTopic(o, t)
  \/ \E o \in OffIds, k \in Listeners : OffLoad(o, k)
  \/ \E o \in OffIds : OffClose(o)
  \/ \E o \in OffIds : OffDelete(o)
  \/ \E o \in OffIds : OffDropped(o)
  \/ \E s \in LmIds : WorkerExit(s)

\* Spec: one caller subscribes L1 (plain, Skip or Void) and L2 (Once) on one
\* topic, emits and unsubscribes the topic, in any order; either two
\* subscriptions and one Emit, or one subscription and two Emits.
Init ==
  \E c \in {Config(MaxSubs, 1, MaxOffs, 0, Callers),
            Config(1, MaxEmits, MaxOffs, 0, Callers)} : InitWith(c)

Next ==
  \/ \E mws \in {<<>>, <<"Skip">>, <<"Void">>} : OnCall(TopicA, "L1", mws)
  \/ OnceCall(TopicA, "L2", <<>>)
  \/ \E s \in LmIds : OnStore(s)
  \/ EmitStart(TopicA)
  \/ OffCall(TopicA, {})
  \/ \E e \in EmitIds, s \in LmIds : TaskOff(e, s)
  \/ \E o \in OffIds : OffPrune(o)
  \/ Deliver
  \/ Remove1

Spec == Init /\ [][Next]_vars

\* SpecVoid: one caller subscribes L1 and L2 on one topic, plain or with the
\* Void middleware, sets or deletes the middlewares of pattern "*", and
\* emits to the topic, in any order.
InitVoid == InitWith(Config(MaxSubs, MaxEmits, 0, MaxUses, Callers))

NextVoid ==
  \/ \E mws \in {<<>>, <<"Void">>} : Use(TopicStar, mws)
  \/ \E l \in Listeners, mws \in {<<>>, <<"Void">>} : OnCall(TopicA, l, mws)
  \/ \E s \in LmIds : OnStore(s)
  \/ EmitStart(TopicA)
  \/ Deliver

SpecVoid == InitVoid /\ [][NextVoid]_vars

\* SpecSkip: one caller subscribes L1 with the Skip middleware and emits to
\* its topic.  The goroutines of Emit are scheduled fairly; the worker is
\* not: the listener may never return and the mailbox may never be drained.
SkipEmits == MaxEmits + 1

InitSkip == InitWith(Config(1, SkipEmits, 0, 0, Callers))

EmitProgress ==
  \/ \E e \in EmitIds, t \in Topics : EmitTopic(e, t)
  \/ \E e \in EmitIds, k \in Listeners : EmitVisit(e, k)
  \/ \E e \in EmitIds : EmitReturn(e)
  \/ \E e \in EmitIds : WaiterClose(e)
  \/ \E e \in EmitIds, s \in LmIds : TaskSend(e, s)

NextSkip ==
  \/ OnCall(TopicA, "L1", <<"Skip">>)
  \/ \E s \in LmIds : OnStore(s)
  \/ EmitStart(TopicA)
  \/ Deliver

SpecSkip == InitSkip /\ [][NextSkip]_vars /\ WF_vars(EmitProgress)

\* SpecOrder: one caller subscribes L1 without middleware and issues Emit
\* calls to its topic one after another, awaiting their completion signals
\* or not.
OrderEmits == MaxEmits + 1

InitOrder == InitWith(Config(1, OrderEmits, 0, 0, Callers))

NextOrder ==
  \/ OnCall(TopicA, "L1", <<>>)
  \/ \E s \in LmIds : OnStore(s)
  \/ EmitStart(TopicA)
  \/ Deliver

SpecOrder == InitOrder /\ [][NextOrder]_vars

\* SpecGlob: one caller subscribes listeners without middleware under a
\* literal topic and under a pattern, and emits to literal topics, to
\* patterns and to a malformed pattern.
InitGlob == InitWith(Config(MaxSubs, MaxEmits, 0, 0, Callers))

NextGlob ==
  \/ \E t \in {TopicA, TopicStar}, l \in Listeners : OnCall(t, l, <<>>)
  \/ \E s \in LmIds : OnStore(s)
  \/ \E t \in Topics : EmitStart(t)
  \/ Deliver

SpecGlob == InitGlob /\ [][NextGlob]_vars

\* SpecOff: one caller subscribes listeners under a literal topic, a
\* pattern and a malformed pattern, and unsubscribes, one call after the
\* other; nothing is emitted.
OffCalls == MaxOffs + 1

InitOff == InitWith(Config(MaxSubs, 0, OffCalls, 0, 1))

NextOff ==
  \/ \E t \in Topics, l \in Listeners : OnCall(t, l, <<>>)
  \/ \E s \in LmIds : OnStore(s)
  \/ \E t \in Topics, ls \in SUBSET Listeners : OffCall(t, ls)
  \/ \E o \in OffIds : OffPrune(o)
  \/ Remove1

SpecOff == InitOff /\ [][NextOff]_vars

\* SpecFault: one caller subscribes L1 and emits to its topic; the listener
\* may panic while it handles an event.
InitFault == InitWith(Config(1, MaxEmits, 0, 0, Callers))

NextFault ==
  \/ OnCall(TopicA, "L1", <<>>)
  \/ \E s \in LmIds : OnStore(s)
  \/ EmitStart(TopicA)
  \/ Deliver
  \/ \E s \in LmIds : WorkerFault(s)

SpecFault == InitFault /\ [][NextFault]_vars

\* SpecClosed: one caller subscribes L1, emits to its topic and unsubscribes
\* the topic while deliveries are under way.  L1 is subscribed plain or with
\* Skip and gets several Emits, or with Once and gets one.  The goroutines of
\* Emit are scheduled fairly, the worker and Off are not.
InitClosed ==
  \E c \in {Config(1, MaxEmits, MaxOffs, 0, Callers),
            Config(1, 1, MaxOffs, 0, Callers)} : InitWith(c)

NextClosed ==
  \/ \E mws \in {<<>>, <<"Skip">>} : OnCall(TopicA, "L1", mws)
  \/ cfg.emits = 1 /\ OnceCall(TopicA, "L1", <<>>)
  \/ \E s \in LmIds : OnStore(s)
  \/ EmitStart(TopicA)
  \/ OffCall(TopicA, {})
  \/ \E e \in EmitIds, s \in LmIds : TaskOff(e, s)
  \/ \E o \in OffIds : OffPrune(o)
  \/ Deliver
  \/ Remove1

SpecClosed == InitClosed /\ [][NextClosed]_vars /\ WF_vars(EmitProgress)

\* SpecOnce: one caller subscribes L1 with Once (alone, or after Skip or
\* Void) on a topic, possibly L1 again without middleware on a pattern that
\* matches the topic, and emits to the topic; the only removals are those
\* the deliveries trigger.  Either two subscriptions and one Emit, or one
\* subscription and several Emits.
InitOnce ==
  \E c \in {Config(MaxSubs, 1, 0, 0, Callers),
            Config(1, MaxEmits, 0, 0, Callers)} : InitWith(c)

NextOnce ==
  \/ \E mws \in {<<>>, <<"Skip">>, <<"Void">>} : OnceCall(TopicA, "L1", mws)
  \/ OnCall(TopicStar, "L1", <<>>)
  \/ \E s \in LmIds : OnStore(s)
  \/ EmitStart(TopicA)
  \/ \E e \in EmitIds, s \in LmIds : TaskOff(e, s)
  \/ \E o \in OffIds : OffPrune(o)
  \/ Deliver
  \/ Remove1

SpecOnce == InitOnce /\ [][NextOnce]_vars

\* SpecDrain: one caller subscribes L1 plain or with Skip, emits to its topic
\* and unsubscribes the topic; the listener returns from every invocation
\* and the worker is scheduled fairly.
WorkerProgress ==
  \/ \E s \in LmIds : WorkerRecv(s)
  \/ \E s \in LmIds : WorkerHandle(s)
  \/ \E s \in LmIds : WorkerExit(s)

InitDrain == InitWith(Config(1, MaxEmits, MaxOffs, 0, Callers))

NextDrain ==
  \/ \E mws \in {<<>>, <<"Skip">>} : OnCall(TopicA, "L1", mws)
  \/ \E s \in LmIds : OnStore(s)
  \/ EmitStart(TopicA)
  \/ OffCall(TopicA, {})
  \/ Deliver
  \/ Remove1

SpecDrain == InitDrain /\ [][NextDrain]_vars /\ WF_vars(WorkerProgress)

\* SpecReplace: one caller subscribes L1 and L2 on one topic, L1 possibly a
\* second time, emits to the topic and unsubscribes, one call after the
\* other.
InitReplace == InitWith(Config(MaxSubs + 1, 1, MaxOffs, 0, 1))

NextReplace ==
  \/ \E l \in Listeners : OnCall(TopicA, l, <<>>)
  \/ \E s \in LmIds : OnStore(s)
  \/ EmitStart(TopicA)
  \/ \E ls \in {{}, {"L1"}} : OffCall(TopicA, ls)
  \/ \E o \in OffIds : OffPrune(o)
  \/ Deliver
  \/ Remove1

SpecReplace == InitReplace /\ [][NextReplace]_vars

\* SpecLive: one caller subscribes L1 plain or L2 with Once, emits to the
\* topic and unsubscribes it, in any order; every listener invocation
\* returns, and the goroutines of Emit, the workers and the Off calls are
\* scheduled fairly.
OffProgress ==
  \/ \E e \in EmitIds, s \in LmIds : TaskOff(e, s)
  \/ \E o \in OffIds : OffPrune(o)
  \/ \E o \in OffIds, t \in Topics : OffTopic(o, t)
  \/ \E o \in OffIds, k \in Listeners : OffLoad(o, k)
  \/ \E o \in OffIds : OffClose(o)
  \/ \E o \in OffIds : OffDelete(o)
  \/ \E o \in OffIds : OffDropped(o)

InitLive == InitWith(Config(1, MaxEmits, MaxOffs, 0, Callers))

NextLive ==
  \/ OnCall(TopicA, "L1", <<>>)
  \/ OnceCall(TopicA, "L2", <<>>)
  \/ \E s \in LmIds : OnStore(s)
  \/ EmitStart(TopicA)
  \/ OffCall(TopicA, {})
  \/ \E e \in EmitIds, s \in LmIds : TaskOff(e, s)
  \/ \E o \in OffIds : OffPrune(o)
  \/ Deliver
  \/ Remove1

SpecLive ==
  /\ InitLive /\ [][NextLive]_vars
  /\ WF_vars(EmitProgress) /\ WF_vars(WorkerProgress) /\ WF_vars(OffProgress)

\* SpecLeak: one caller subscribes listeners without middleware under the
\* topics "a" and "[", registers Void or Skip for the pattern "a", which
\* matches the first topic and not the second, and emits to "*", which
\* resolves to both.
InitLeak == InitWith(Config(MaxSubs, 1, 0, 1, Callers))

NextLeak ==
  \/ \E mws \in {<<"Void">>, <<"Skip">>} : Use(TopicA, mws)
  \/ \E t \in {TopicA, TopicBad}, l \in Listeners : OnCall(t, l, <<>>)
  \/ \E s \in LmIds : OnStore(s)
  \/ EmitStart(TopicStar)
  \/ Deliver

SpecLeak == InitLeak /\ [][NextLeak]_vars

\* ------------------------------------------------------------------------
\* Claims
\* ------------------------------------------------------------------------
\* The delivery goroutines Emit call e has started.
Launched(e) == {s \in LmIds : tasks[e, s].pc # "none"}

\* The delivery goroutines of e that have not finished their attempt.
Attempting(e) == {s \in LmIds : tasks[e, s].pc = "send"}

\* C1: the completion signal of an Emit call is closed at most once; when it
\* is closed the call has returned and every delivery attempt it started
\* has finished attempting; and a call that returns without having started
\* any delivery attempt has closed the signal by then.
C1_DoneAfterAttempts ==
  \A e \in EmitIds :
    /\ emits[e].closes <= 1
    /\ emits[e].closes >= 1 =>
         emits[e].pc = "returned" /\ Attempting(e) = {} /\ emits[e].wg = 0
    /\ (emits[e].pc = "returned" /\ Launched(e) = {}) => emits[e].closes = 1

\* C1 witness: a signal closed by the waiter after an enqueued delivery and
\* a delivery that failed on a closed mailbox.
C1_Witness ==
  \E e \in EmitIds :
    /\ emits[e].closes = 1
    /\ \E s \in Launched(e) : tasks[e, s].sent
    /\ \E s \in Launched(e) : ~tasks[e, s].sent /\ ~tasks[e, s].canceled

\* The events of Emit call e that reached subscription s: handled, being
\* handled or waiting in the mailbox.
Arrived(s) ==
  lms[s].handled \o (IF lms[s].worker \in {"busy", "panicked"}
                     THEN <<lms[s].cur>> ELSE <<>>) \o lms[s].ch

Count(e, s) == Cardinality({i \in 1..Len(Arrived(s)) : Arrived(s)[i].emit = e})

\* The invocations of the listener made through subscription s.
Invocations(s) ==
  Len(lms[s].handled) + (IF lms[s].worker \in {"busy", "panicked"} THEN 1 ELSE 0)

\* C2 as claimed: once an Emit has enqueued an event into a Once-flagged
\* subscription and its completion signal has fired, Listeners(topic) no
\* longer returns the subscription and no Emit issued afterwards to the
\* same topic reaches it.
C2_OnceGoneWhenDone ==
  \A e \in EmitIds, s \in LmIds :
    (/\ tasks[e, s].sent
     /\ HasFlag(tasks[e, s].flag, FlagOnce)
     /\ emits[e].closes >= 1)
    => /\ s \notin ListenersOf(emits[e].topic)
       /\ \A e2 \in EmitIds :
            (e \in emits[e2].doneBefore /\ emits[e2].topic = emits[e].topic)
            => \A v \in emits[e2].visited : v[1] # s

\* C3 as claimed: a listener subscribed with the Once middleware is invoked
\* at most once through that subscription.
C3_OnceInvokedOnce ==
  \A s \in LmIds :
    (lms[s].worker # "none" /\ \E i \in 1..Len(lms[s].middlewares) :
                                 lms[s].middlewares[i] = "Once")
    => Invocations(s) <= 1

\* C4: when the copy of the event made for a subscription carries Void
\* after the pattern-scoped and the listener-scoped middlewares, no delivery
\* goroutine is started for it and the event never reaches its mailbox or
\* its listener; an Emit whose copies were all Void has closed its
\* completion signal when it returns.
C4_VoidNotDelivered ==
  \A e \in EmitIds :
    /\ \A v \in emits[e].visited :
         HasFlag(v[2], FlagVoid) => tasks[e, v[1]].pc = "none" /\ Count(e, v[1]) = 0
    /\ (/\ emits[e].pc = "returned"
        /\ \A v \in emits[e].visited : HasFlag(v[2], FlagVoid))
       => emits[e].closes = 1

\* C4 witness: one Emit voided by the pattern middleware for a plain
\* subscription, and one that skipped a subscription with its own Void
\* while delivering to the other subscription.
C4_Witness ==
  /\ \E e \in EmitIds : \E v \in emits[e].visited :
       /\ HasFlag(v[2], FlagVoid)
       /\ lms[v[1]].middlewares = <<>>
       /\ emits[e].closes = 1
  /\ \E e \in EmitIds : \E v, w \in emits[e].visited :
       /\ HasFlag(v[2], FlagVoid)
       /\ lms[v[1]].middlewares = <<"Void">>
       /\ Count(e, w[1]) = 1
       /\ emits[e].closes = 1

\* A delivery with Skip never waits, and one that found the mailbox full
\* (or, without buffer, the worker not ready) dropped the event.
C5_Dropped ==
  \A e \in EmitIds, s \in LmIds :
    (tasks[e, s].pc # "none" /\ HasFlag(tasks[e, s].flag, FlagSkip))
    => /\ tasks[e, s].pc = "send" => SendOutcomes(e, s) # {}
       /\ (tasks[e, s].pc # "send" /\ tasks[e, s].sawFull)
          => ~tasks[e, s].sent /\ ~tasks[e, s].canceled /\ Count(e, s) = 0

\* C5: with Skip, a delivery attempt to a full mailbox does not wait, the
\* event is dropped and never reaches the listener, and the completion
\* signal of every Emit fires even when the worker never drains the mailbox.
C5_SkipNeverWaits ==
  /\ []C5_Dropped
  /\ \A e \in 1..SkipEmits : [](nEmits >= e => <>(emits[e].closes = 1))

\* C5 witness: an event dropped on a full buffered mailbox whose worker is
\* still inside the listener, with the completion signal fired.
C5_Witness ==
  \E e \in EmitIds, s \in LmIds :
    /\ tasks[e, s].sawFull
    /\ HasFlag(tasks[e, s].flag, FlagSkip)
    /\ lms[s].cap = 1 /\ Len(lms[s].ch) = 1 /\ lms[s].worker = "busy"
    /\ emits[e].closes = 1

\* C6 as claimed: the events of Emit calls issued one after another, each
\* call having returned before the next is issued, reach the listener in the
\* order of the calls.
C6_OrderOfReturned ==
  \A s \in LmIds : \A i, j \in 1..Len(Arrived(s)) :
    i < j => Arrived(s)[j].emit \notin emits[Arrived(s)[i].emit].retBefore

\* C6, amended: when the completion signal of each Emit has fired before the
\* next Emit is issued, the event of the earlier call has reached the
\* listener's subscription, once, and the listener is handed the events in
\* the order of the calls.
C6_OrderOfAwaited ==
  \A s \in LmIds :
    /\ \A i, j \in 1..Len(Arrived(s)) :
         i < j => Arrived(s)[j].emit \notin emits[Arrived(s)[i].emit].doneBefore
    /\ \A e, e2 \in EmitIds :
         (e \in emits[e2].doneBefore /\ s \in emits[e].regAtStart)
         => Count(e, s) = 1

\* C6 witness: every Emit was awaited before the next one and the listener
\* has handled all the events.
C6_Witness ==
  \E s \in LmIds :
    /\ Len(lms[s].handled) = OrderEmits
    /\ \A e \in 2..OrderEmits : (e - 1) \in emits[e].doneBefore

\* Pattern K matches literal topic T, or pattern T matches literal topic K.
DirMatch(K, T) ==
  \/ IsLiteral(T) /\ Match(K, T).ok
  \/ IsLiteral(K) /\ Match(T, K).ok

\* C7: a subscription under a pattern receives the event emitted to a
\* literal topic the pattern matches, and a subscription under a literal
\* topic receives the event emitted to a pattern that matches the topic:
\* once the completion signal of a blocking Emit has fired, the event has
\* reached each such subscription registered when Emit was called exactly
\* once, and no subscription is ever reached twice by one Emit.
C7_BothDirections ==
  \A e \in EmitIds, s \in LmIds :
    /\ Count(e, s) <= 1
    /\ (/\ emits[e].closes >= 1
        /\ s \in emits[e].regAtStart
        /\ DirMatch(lms[s].topic, emits[e].topic))
       => Count(e, s) = 1

\* C7 witness: the listener under "*" has handled the event emitted to "a"
\* and the listener under "a" has handled the event emitted to "*".
C7_Witness ==
  \E e1, e2 \in EmitIds, s1, s2 \in LmIds :
    /\ emits[e1].topic = TopicA /\ lms[s1].topic = TopicStar
    /\ \E i \in 1..Len(lms[s1].handled) : lms[s1].handled[i].emit = e1
    /\ emits[e2].topic = TopicStar /\ lms[s2].topic = TopicA
    /\ \E i \in 1..Len(lms[s2].handled) : lms[s2].handled[i].emit = e2
    /\ emits[e1].closes = 1 /\ emits[e2].closes = 1

\* The explicit Off calls, and whether one is between its start and its end.
OffCallIds == {<<"call", i, 0>> : i \in 1..OffCalls}

Running(o) == offs[o].pc \notin {"none", "done", "panicked"}

\* Topic K matches topic T in one of the two glob directions.
EitherMatch(K, T) == Match(K, T).ok \/ Match(T, K).ok

\* Off call o leaves no topic that matched at its start, with the mailboxes
\* of all the subscriptions that were under it closed.
AllGone(o) ==
  \A K \in offs[o].startKeys :
    EitherMatch(K, offs[o].topic)
    => /\ K \notin TopicsOf
       /\ \A s \in offs[o].startReg[K] : lms[s].closed /\ ~Registered(s)

\* This step is inside or at the start of Off call b, which repeats the Off
\* call a before it with nothing subscribed in between.
Repeats(a, b) ==
  /\ a[2] + 1 = b[2]
  /\ offs[b].pc # "done" /\ offs'[b].pc # "none"
  /\ offs'[b].topic = offs[a].topic
  /\ offs[a].ls = {} /\ offs'[b].ls = {}
  /\ offs'[b].startLm = offs[a].startLm

\* The step changes neither the registry nor a mailbox's being open.
RegistryKept ==
  /\ listMans' = listMans
  /\ maps' = maps
  /\ \A s \in LmIds : lms'[s].closed = lms[s].closed
  /\ ~crashed'

\* C8 as claimed: when Off(topic) without listeners completes, every topic
\* registered at its start that matches topic in either direction is gone
\* from Topics() and the mailboxes of its subscriptions are closed; a second
\* Off(topic) changes nothing and does not fault.
C8_OffRemovesAllMatching ==
  [][/\ \A o \in OffCallIds :
          (offs[o].pc # "done" /\ offs'[o].pc = "done" /\ offs'[o].ls = {})
          => AllGone(o)'
     /\ \A a, b \in OffCallIds : Repeats(a, b) => RegistryKept]_vars

\* C8, amended: the same for a well-formed topic; Off of a malformed pattern
\* removes nothing.
C8_OffRemovesWellFormed ==
  [][/\ \A o \in OffCallIds :
          (offs[o].pc # "done" /\ offs'[o].pc = "done" /\ offs'[o].ls = {})
          => IF Malformed(offs'[o].topic)
             THEN RegistrySnapshot' = offs'[o].startReg
             ELSE AllGone(o)'
     /\ \A a, b \in OffCallIds : Repeats(a, b) => RegistryKept]_vars

\* C8 witness: a completed Off("*") has removed the subscriptions of two
\* topics and closed their mailboxes, and a second Off("*") has completed.
C8_Witness ==
  \E a, b \in OffCallIds :
    /\ a[2] + 1 = b[2]
    /\ offs[a].pc = "done" /\ offs[b].pc = "done"
    /\ offs[a].topic = TopicStar /\ offs[b].topic = TopicStar
    /\ offs[a].ls = {} /\ offs[b].ls = {}
    /\ offs[a].startKeys = {TopicA, TopicBad}
    /\ offs[b].startLm = offs[a].startLm
    /\ TopicsOf = {}
    /\ \A s \in LmIds : lms[s].closed

\* Subscription s is one that Off call o names: its listener is among the
\* listeners given and its topic matches the topic given.
Named(o, s) ==
  /\ lms[s].listener \in offs[o].ls
  /\ EitherMatch(lms[s].topic, offs[o].topic)

\* C9: while an Off call with listeners runs, a subscription it does not
\* name stays registered with its mailbox open, a topic leaves Topics() only
\* if no subscription is left under it, and a call that names no registered
\* subscription changes neither the registry nor a mailbox.
C9_OffOnlyNamed ==
  [][\A o \in OffCallIds :
       (Running(o) /\ offs[o].ls # {})
       => /\ \A s \in LmIds :
               ~Named(o, s) => /\ lms'[s].closed = lms[s].closed
                               /\ Registered(s)' = Registered(s)
          /\ \A t \in Topics :
               (listMans[t] # 0 /\ listMans'[t] = 0) => SubsUnder(t) = {}
          /\ (\A K \in Topics : \A s \in offs[o].startReg[K] : ~Named(o, s))
             => RegistryKept]_vars

\* C9 witness: Off("a", L1) has completed with the subscription of L1
\* removed and closed and the subscription of L2 under the same topic kept
\* and open.
C9_Witness ==
  \E o \in OffCallIds, s1, s2 \in LmIds :
    /\ offs[o].pc = "done" /\ offs[o].topic = TopicA /\ offs[o].ls = {"L1"}
    /\ s1 \in offs[o].startReg[TopicA] /\ lms[s1].listener = "L1"
    /\ lms[s1].closed /\ ~Registered(s1)
    /\ s2 \in offs[o].startReg[TopicA] /\ lms[s2].listener = "L2"
    /\ ~lms[s2].closed /\ Registered(s2)
    /\ TopicA \in TopicsOf

\* C10 as claimed: after a fault of the listener while it handles an event
\* the worker of the subscription has not terminated and the process goes
\* on, so that the events enqueued after the faulting one can be handled.
C10_WorkerSurvivesFault ==
  \A s \in LmIds :
    lms[s].faulted => lms[s].worker # "panicked" /\ ~crashed

\* A delivery attempt that ended on a closed mailbox was not sent, not
\* canceled, asked for no removal and its goroutine finished.
C11_NotSent ==
  \A e \in EmitIds, s \in LmIds :
    (tasks[e, s].pc \notin {"none", "send"} /\ tasks[e, s].sawClosed)
    => /\ ~tasks[e, s].sent /\ ~tasks[e, s].canceled /\ ~tasks[e, s].remove
       /\ tasks[e, s].pc = "done"
       /\ Count(e, s) = 0

\* No fault while an attempt is outstanding on a closed mailbox or after it
\* ended on one.
C11_NoFault ==
  \A e \in EmitIds, s \in LmIds :
    ((tasks[e, s].pc = "send" /\ lms[s].closed) \/ tasks[e, s].sawClosed)
    => ~crashed

\* Emit call e has an attempt outstanding on a closed mailbox.
OnClosed(e) ==
  /\ e \in EmitIds
  /\ \E s \in LmIds : tasks[e, s].pc = "send" /\ lms[s].closed

DoneFired(e) == e \in EmitIds /\ emits[e].closes = 1

\* C11: a delivery attempt, blocking or not, that finds its mailbox closed
\* by an Off ends not sent, not canceled and without a removal, the process
\* does not fault, and the completion signal of its Emit fires.
C11_ClosedMailboxNotSent ==
  /\ [](C11_NotSent /\ C11_NoFault)
  /\ \A e \in 1..MaxEmits : OnClosed(e) ~> DoneFired(e)

\* C11 witness: a blocking attempt on an unbuffered mailbox whose worker was
\* inside the listener ended on the closed mailbox, and done has fired.
C11_Witness ==
  \E e \in EmitIds, s \in LmIds :
    /\ tasks[e, s].sawClosed /\ tasks[e, s].pc = "done"
    /\ Wait(tasks[e, s].flag)
    /\ lms[s].cap = 0 /\ lms[s].worker = "busy"
    /\ emits[e].closes = 1

\* C12 as claimed: removals of one subscription that run concurrently (a
\* removal triggered by Once and an explicit Off, or two removals triggered
\* by Once) close its mailbox at most once: no removal faults on a mailbox
\* that is already closed.
C12_RemovalsSafe ==
  /\ ~crashed
  /\ \A o \in OffIds : offs[o].pc # "panicked"

\* The middlewares of subscription s include Once.
HasOnce(s) ==
  \E i \in 1..Len(lms[s].middlewares) : lms[s].middlewares[i] = "Once"

\* C13 as claimed: a subscription made by Once(topic, listener, mws...) has
\* the Once middleware first in its list, before every middleware of mws.
C13_OnceFirst ==
  \A s \in LmIds : HasOnce(s) => Head(lms[s].middlewares) = "Once"

\* The elements of a sequence, and whether none occurs twice.
Elems(q) == {q[i] : i \in 1..Len(q)}

NoDup(q) == \A i, j \in 1..Len(q) : i # j => q[i] # q[j]

\* C14 as claimed: for every query Q and every order of the Range, matched
\* returns exactly the registered keys K for which Match(Q, K) or
\* Match(K, Q) succeeds, each once, a malformed pattern counting as no match
\* in its direction only.
C14_ResolveEitherDirection ==
  \A Q \in Topics : \A order \in Orders(TopicsOf) :
    LET r == matchedRange(order, Q, <<>>)
    IN /\ NoDup(r)
       /\ Elems(r) = {K \in TopicsOf : EitherMatch(Q, K)}

\* C14, amended: the same for a well-formed Q (a malformed key counts as no
\* match in its direction); for a malformed Q nothing is returned, whatever
\* is registered.  The set the calls work with is the set of these keys.
C14_ResolveWellFormed ==
  \A Q \in Topics : \A order \in Orders(TopicsOf) :
    LET r == matchedRange(order, Q, <<>>)
    IN /\ NoDup(r)
       /\ Elems(r) = matched(Q)
       /\ Elems(r) = IF Malformed(Q) THEN {}
                     ELSE {K \in TopicsOf : EitherMatch(Q, K)}

\* C14 witness: with "*" and "[" registered, "a" resolves to "*" alone in
\* both orders, "*" resolves to both keys, and an Off of "[" has resolved to
\* nothing.
C14_Witness ==
  /\ TopicsOf = {TopicStar, TopicBad}
  /\ matchedRange(<<TopicStar, TopicBad>>, TopicA, <<>>) = <<TopicStar>>
  /\ matchedRange(<<TopicBad, TopicStar>>, TopicA, <<>>) = <<TopicStar>>
  /\ Elems(matchedRange(<<TopicBad, TopicStar>>, TopicStar, <<>>)) = TopicsOf
  /\ \E o \in OffCallIds :
       /\ offs[o].topic = TopicBad /\ offs[o].pc = "done"
       /\ offs[o].startKeys = TopicsOf

\* Delivery attempt (e, s) has ended.
Ended(e, s) == tasks[e, s].pc \notin {"none", "send"}

\* C15 as claimed: a delivery attempt carrying Once asks for the removal of
\* the subscription on every outcome that is not canceled, also when the
\* event was not sent, as on a Skip drop on a full mailbox.
C15_OnceRemovesUnsent ==
  \A e \in EmitIds, s \in LmIds :
    (Ended(e, s) /\ HasFlag(tasks[e, s].flag, FlagOnce) /\ ~tasks[e, s].canceled)
    => tasks[e, s].remove

\* C15, amended: a delivery attempt carrying Once asks for the removal
\* exactly when the event was enqueued; an attempt that was not sent (Skip
\* drop on a full mailbox, closed mailbox) asks for none and starts no Off.
C15_OnceRemovesOnlySent ==
  \A e \in EmitIds, s \in LmIds :
    /\ Ended(e, s)
       => (tasks[e, s].remove
           <=> (HasFlag(tasks[e, s].flag, FlagOnce) /\ tasks[e, s].sent))
    /\ offs[<<"task", e, s>>].pc # "none"
       => (tasks[e, s].sent /\ HasFlag(tasks[e, s].flag, FlagOnce))

\* C15 witness: an attempt with Once and Skip was dropped on a full mailbox
\* and asked for no removal; its Emit is complete and the subscription is
\* still registered with its mailbox open.
C15_Witness ==
  \E e \in EmitIds, s \in LmIds :
    /\ tasks[e, s].pc = "done" /\ tasks[e, s].sawFull
    /\ HasFlag(tasks[e, s].flag, FlagOnce) /\ HasFlag(tasks[e, s].flag, FlagSkip)
    /\ ~tasks[e, s].sent /\ ~tasks[e, s].remove
    /\ emits[e].closes = 1
    /\ Registered(s) /\ ~lms[s].closed

\* The events subscription s received, in the order of their enqueueing,
\* are those its listener handled, the one it is handling and those still
\* in the mailbox, in this order; a worker that exited has handled all.
C16_Fifo ==
  \A s \in LmIds :
    /\ Arrived(s) = lms[s].enq
    /\ lms[s].worker = "exited"
       => lms[s].closed /\ lms[s].handled = lms[s].enq

\* The subscription exists, its mailbox is closed.
Closed(s) == s \in LmIds /\ lms[s].closed

Drained(s) ==
  s \in LmIds /\ lms[s].worker = "exited" /\ lms[s].handled = lms[s].enq

EntriesOf(t, l) == {x \in SubsUnder(t) : lms[x].listener = l}

\* C17: when On(topic, L) completes, the registry holds one entry for
\* (topic, L), the new subscription; a subscription superseded this way is
\* out of the registry, its mailbox stays open and its worker keeps running,
\* whatever Off is called afterwards.
C17_ReplacedStaysOpen ==
  /\ [][\A s \in LmIds :
          (ons[s] # 0 /\ ons'[s] = 0)
          => EntriesOf(lms[s].topic, lms[s].listener)' = {s}]_vars
  /\ [](\A s \in LmIds :
          lms[s].superseded
          => /\ ~lms[s].closed
             /\ lms[s].worker \in {"idle", "busy"}
             /\ ~Registered(s))

\* C17 witness: L1 was subscribed twice under the topic; an Off called after
\* the second On has completed and closed the new subscription's mailbox;
\* the superseded subscription's mailbox is open and its worker, which has
\* handled an event, is waiting for the next.
C17_Witness ==
  \E s, s2 \in LmIds, o \in OffCallIds :
    /\ s < s2 /\ lms[s].superseded
    /\ lms[s2].topic = lms[s].topic /\ lms[s2].listener = lms[s].listener
    /\ o[2] <= cfg.offs /\ offs[o].pc = "done" /\ offs[o].startLm >= s2
    /\ lms[s2].closed
    /\ ~lms[s].closed /\ lms[s].worker = "idle" /\ Len(lms[s].handled) = 1

\* Subscription s is stored in a per-topic map.
Stored(s) == \E m \in LmIds, k \in Listeners : maps[m][k] = s

\* No Off call, explicit or triggered by Once, names the listener of s.
NotNamed(s) ==
  \A o \in OffIds :
    offs[o].pc # "none"
    => (offs[o].ls # {} /\ lms[s].listener \notin offs[o].ls)

\* C18 as claimed: a subscription with an open mailbox that is stored in a
\* per-topic map and that no Off names is reachable from the registry: On
\* racing with the removal that prunes its topic does not lose it.
C18_NoLostSubscription ==
  \A s \in LmIds :
    (Stored(s) /\ ~lms[s].closed /\ NotNamed(s)) => Registered(s)

\* Emit call e has been made.
Issued(e) == e \in EmitIds /\ emits[e].pc # "none"

\* C19 as claimed: with listeners that return and fair scheduling the
\* completion signal of every Emit made eventually fires, also under
\* concurrent On, Off and Emit calls, and no delivery attempt ends canceled.
C19_DoneEventuallyFires ==
  /\ [](\A e \in EmitIds, s \in LmIds : ~tasks[e, s].canceled)
  /\ \A e \in 1..MaxEmits : Issued(e) ~> DoneFired(e)

\* C20 as claimed: the removal that follows a delivery with Once removes
\* the subscription delivered to only: a subscription whose middlewares do
\* not include Once, here that of the same listener under a pattern matching
\* the topic emitted to, stays registered with its mailbox open.
C20_OnceRemovesOnlyItsOwn ==
  \A s \in LmIds :
    (lms[s].worker # "none" /\ ons[s] = 0 /\ ~HasOnce(s) /\ ~lms[s].superseded)
    => (~lms[s].closed /\ Registered(s))

\* C21 as claimed: within one Emit, a delivery to a subscription under a
\* topic that no registered middleware pattern matches carries the flags of
\* the event as emitted (none) and those of the subscription's own
\* middlewares, whatever other matching topic was processed before it.
C21_FlagsStayWithTopic ==
  \A e \in EmitIds : \A v \in emits[e].visited :
    getMiddlewares(lms[v[1]].topic) = <<>>
    => v[2] = applyMiddlewares(0, lms[v[1]].middlewares)

====
